---- MODULE Spec2Model ----
(***************************************************************************)
(* Model of the paper-summarization backend: the POST /api/summarize       *)
(* handler (backend/app/main.py) and the pipeline it drives,               *)
(* run_research_crew with _arxiv_search_function, _clean_json_text and     *)
(* _summarize_with_gemini (backend/app/crew_setup.py).                     *)
(*                                                                         *)
(* Python values are tagged records: None, bool, int, str, list, dict      *)
(* (an ordered sequence of <<key, value>> pairs) and "obj" (any other      *)
(* object).  A str that the program parses is kept as a "text": a sequence *)
(* of JSON tokens, so that json.dumps / json.loads are a real printer and  *)
(* a real parser.  Field values of records are of the types the response  *)
(* model accepts (str, list of str, None); the response's "model" field    *)
(* (crew_setup.py line 195) is read by no property and is left out.        *)
(***************************************************************************)
EXTENDS Integers, Sequences, FiniteSets, TLC

(***************************************************************************)
(* Bounds of the model.                                                    *)
(***************************************************************************)
\* the search provider returns at most this many records per call
MaxResults == 2

\* SummarizeRequest.top_n default (main.py line 36 and line 65)
DefaultTopN == 5

(***************************************************************************)
(* Python values.                                                          *)
(***************************************************************************)
PyNone == [t |-> "none"]
PyBool(b) == [t |-> "bool", b |-> b]
PyInt(i) == [t |-> "int", i |-> i]
PyStr(s) == [t |-> "str", s |-> s]
PyList(l) == [t |-> "list", l |-> l]
PyDict(d) == [t |-> "dict", d |-> d]
PyText(x) == [t |-> "text", x |-> x]
PyObj == [t |-> "obj"]

\* isinstance(v, str) / isinstance(v, list) / isinstance(v, dict)
IsStr(v) == v.t \in {"str", "text"}
IsList(v) == v.t = "list"
IsDict(v) == v.t = "dict"

\* Python truthiness: bool(v)
Truthy(v) ==
    CASE v.t = "none" -> FALSE
      [] v.t = "bool" -> v.b
      [] v.t = "int" -> v.i /= 0
      [] v.t = "str" -> v.s /= ""
      [] v.t = "text" -> v.x /= <<>>
      [] v.t = "list" -> v.l /= <<>>
      [] v.t = "dict" -> v.d /= <<>>
      [] OTHER -> TRUE

\* "a or b"
PyOr(a, b) == IF Truthy(a) THEN a ELSE b

RECURSIVE PairsGet(_, _, _)
PairsGet(d, k, default) ==
    IF d = <<>> THEN default
    ELSE IF Head(d)[1] = k THEN Head(d)[2] ELSE PairsGet(Tail(d), k, default)

\* dict.get(k, default)
DictGet(v, k, default) == PairsGet(v.d, k, default)

\* d[k] = x of a dict under construction: a repeated key keeps its place
RECURSIVE PairsPut(_, _, _)
PairsPut(d, k, x) ==
    IF d = <<>> THEN << <<k, x>> >>
    ELSE IF Head(d)[1] = k THEN << <<k, x>> >> \o Tail(d)
    ELSE <<Head(d)>> \o PairsPut(Tail(d), k, x)

(***************************************************************************)
(* JSON text: a sequence of tokens.                                        *)
(***************************************************************************)
Tok(k, s, n) == [k |-> k, s |-> s, n |-> n]
TP(s) == Tok("p", s, 0)         \* punctuation [ ] { } , :
TLit(s) == Tok("lit", s, 0)     \* null true false
TNum(n) == Tok("num", "", n)    \* a number
TStr(s) == Tok("str", s, 0)     \* a string literal
TWord(s) == Tok("word", s, 0)   \* bare characters that are no JSON token
TWs == Tok("ws", "", 0)         \* whitespace
TFence == Tok("fence", "", 0)   \* a Markdown code fence, three backticks

(***************************************************************************)
(* json.dumps, with its default separators ", " and ": ".                  *)
(***************************************************************************)
RECURSIVE Dumps(_), DumpsElems(_), DumpsPairs(_)
Dumps(v) ==
    CASE v.t = "none" -> <<TLit("null")>>
      [] v.t = "bool" -> <<TLit(IF v.b THEN "true" ELSE "false")>>
      [] v.t = "int" -> <<TNum(v.i)>>
      [] v.t = "str" -> <<TStr(v.s)>>
      [] v.t = "list" -> <<TP("[")>> \o DumpsElems(v.l) \o <<TP("]")>>
      [] v.t = "dict" -> <<TP("{")>> \o DumpsPairs(v.d) \o <<TP("}")>>

DumpsElems(l) ==
    IF l = <<>> THEN <<>>
    ELSE IF Len(l) = 1 THEN Dumps(l[1])
    ELSE Dumps(l[1]) \o <<TP(","), TWs>> \o DumpsElems(Tail(l))

DumpsPairs(d) ==
    IF d = <<>> THEN <<>>
    ELSE LET one == <<TStr(d[1][1]), TP(":"), TWs>> \o Dumps(d[1][2])
         IN  IF Len(d) = 1 THEN one
             ELSE one \o <<TP(","), TWs>> \o DumpsPairs(Tail(d))

(***************************************************************************)
(* json.loads: a recursive-descent parser.  A parse step returns           *)
(* [ok, v, rest]; Loads fails (JSONDecodeError) unless one value spans the *)
(* whole text, whitespace aside.                                           *)
(***************************************************************************)
RECURSIVE SkipWs(_)
SkipWs(ts) ==
    IF ts /= <<>> /\ Head(ts).k = "ws" THEN SkipWs(Tail(ts)) ELSE ts

ParseFail == [ok |-> FALSE, v |-> PyNone, rest |-> <<>>]
ParseOk(v, rest) == [ok |-> TRUE, v |-> v, rest |-> rest]

IsP(ts, s) == ts /= <<>> /\ Head(ts).k = "p" /\ Head(ts).s = s

RECURSIVE ParseValue(_), ParseElems(_, _), ParsePairs(_, _)
ParseValue(ts0) ==
    LET ts == SkipWs(ts0) IN
    IF ts = <<>> THEN ParseFail
    ELSE LET h == Head(ts)
             r == Tail(ts)
         IN  CASE h.k = "lit" ->
                    ParseOk(CASE h.s = "null" -> PyNone
                              [] h.s = "true" -> PyBool(TRUE)
                              [] OTHER -> PyBool(FALSE), r)
               [] h.k = "num" -> ParseOk(PyInt(h.n), r)
               [] h.k = "str" -> ParseOk(PyStr(h.s), r)
               [] h.k = "p" /\ h.s = "[" ->
                    IF IsP(SkipWs(r), "]")
                    THEN ParseOk(PyList(<<>>), Tail(SkipWs(r)))
                    ELSE ParseElems(r, <<>>)
               [] h.k = "p" /\ h.s = "{" ->
                    IF IsP(SkipWs(r), "}")
                    THEN ParseOk(PyDict(<<>>), Tail(SkipWs(r)))
                    ELSE ParsePairs(r, <<>>)
               [] OTHER -> ParseFail

\* after "[" or ",": one element, then "," or "]"
ParseElems(ts, acc) ==
    LET e == ParseValue(ts) IN
    IF ~e.ok THEN ParseFail
    ELSE LET r == SkipWs(e.rest)
             acc2 == Append(acc, e.v)
         IN  IF IsP(r, "]") THEN ParseOk(PyList(acc2), Tail(r))
             ELSE IF IsP(r, ",") THEN ParseElems(Tail(r), acc2)
             ELSE ParseFail

\* after "{" or ",": "key" : value, then "," or "}"
ParsePairs(ts0, acc) ==
    LET ts == SkipWs(ts0) IN
    IF ts = <<>> \/ Head(ts).k /= "str" THEN ParseFail
    ELSE LET key == Head(ts).s
             c == SkipWs(Tail(ts))
         IN  IF ~IsP(c, ":") THEN ParseFail
             ELSE LET e == ParseValue(Tail(c)) IN
                  IF ~e.ok THEN ParseFail
                  ELSE LET r == SkipWs(e.rest)
                           acc2 == PairsPut(acc, key, e.v)
                       IN  IF IsP(r, "}") THEN ParseOk(PyDict(acc2), Tail(r))
                           ELSE IF IsP(r, ",") THEN ParsePairs(Tail(r), acc2)
                           ELSE ParseFail

Loads(ts) ==
    LET r == ParseValue(ts) IN
    IF r.ok /\ SkipWs(r.rest) = <<>> THEN [ok |-> TRUE, v |-> r.v]
    ELSE [ok |-> FALSE, v |-> PyNone]

(***************************************************************************)
(* _clean_json_text: strip, drop a leading fence with its optional "json"  *)
(* tag, drop a trailing fence, strip.                                      *)
(***************************************************************************)
RECURSIVE StripRight(_)
StripRight(ts) ==
    IF ts /= <<>> /\ ts[Len(ts)].k = "ws"
    THEN StripRight(SubSeq(ts, 1, Len(ts) - 1))
    ELSE ts

\* str.strip() of a text
StripText(ts) == StripRight(SkipWs(ts))

\* re.sub(r"^```(json)?", "", text)
DropLeadingFence(ts) ==
    IF ts /= <<>> /\ Head(ts).k = "fence"
    THEN LET r == Tail(ts) IN
         IF r /= <<>> /\ Head(r).k = "word" /\ Head(r).s = "json"
         THEN Tail(r) ELSE r
    ELSE ts

\* re.sub(r"```$", "", text)
DropTrailingFence(ts) ==
    IF ts /= <<>> /\ ts[Len(ts)].k = "fence"
    THEN SubSeq(ts, 1, Len(ts) - 1)
    ELSE ts

clean_json_text(ts) ==
    StripText(DropTrailingFence(DropLeadingFence(StripText(ts))))

(***************************************************************************)
(* _summarize_with_gemini.  gen is what the generation provider does on    *)
(* this call: [raise |-> TRUE] when generate_content throws, else the text *)
(* of the response (<<>> when resp.text is None or empty).  The result is  *)
(* [raised, v]: the exception leaves the function, or v is returned.       *)
(***************************************************************************)
SummaryKeys == <<"problem", "methodology", "findings", "limitations">>

EmptySummary ==
    PyDict(<< <<"problem", PyStr("")>>, <<"methodology", PyStr("")>>,
              <<"findings", PyStr("")>>, <<"limitations", PyStr("")>> >>)

Returned(v) == [raised |-> FALSE, v |-> v]
Raised == [raised |-> TRUE, v |-> PyNone]

\* lines 155-160, the client being configured
GenerateAndParse(gen) ==
    IF gen.raise THEN Raised
    ELSE LET text == IF gen.x = <<>> THEN <<TP("{"), TP("}")>> ELSE gen.x
             parsed == Loads(clean_json_text(text))
         IN  IF parsed.ok THEN Returned(parsed.v) ELSE Returned(EmptySummary)

summarize_with_gemini(client, gen) ==
    IF ~client THEN Returned(EmptySummary) ELSE GenerateAndParse(gen)

(***************************************************************************)
(* _arxiv_search_function: the provider fails (the except branch returns   *)
(* []) or yields k records, k <= max_results, ranked by relevance.         *)
(***************************************************************************)
ArxivRecord(i) ==
    PyDict(<< <<"title", PyStr(IF i = 1 THEN "R1" ELSE "Rn")>>,
              <<"authors", PyList(<<PyStr("A")>>)>>,
              <<"abstract", PyStr("abs")>>,
              <<"link", PyStr("http://arxiv/" )>>,
              <<"published", IF i = 1 THEN PyStr("2024-01-01") ELSE PyNone>> >>)

SearchOutcomes(max_results) ==
    {[fail |-> TRUE, k |-> 0]} \cup
    {[fail |-> FALSE, k |-> k] :
        k \in 0..(IF max_results < MaxResults THEN max_results ELSE MaxResults)}

arxiv_search_function(out) ==
    IF out.fail THEN <<>> ELSE [i \in 1..out.k |-> ArxivRecord(i)]

(***************************************************************************)
(* The orchestration result: any Python object.  v is the object itself    *)
(* (what isinstance sees), raw its "raw" attribute, NoAttr when it has     *)
(* none (what hasattr sees).                                               *)
(***************************************************************************)
NoAttr == [t |-> "noattr"]
Result(v, raw) == [v |-> v, raw |-> raw]
HasRaw(r) == r.raw.t /= "noattr"

\* the characters of a str as JSON text
TextOf(v) ==
    IF v.t = "text" THEN v.x
    ELSE IF v.s = "" THEN <<>> ELSE <<TWord(v.s)>>

\* try: papers = json.loads(s)  except json.JSONDecodeError: papers = []
LoadsOrEmpty(v) ==
    LET parsed == Loads(TextOf(v)) IN
    IF parsed.ok THEN parsed.v ELSE PyList(<<>>)

\* the branches taken in another order: the raw attribute is looked at first
SelectPapers_RawFirst(r) ==
    IF HasRaw(r) /\ IsStr(r.raw) THEN LoadsOrEmpty(r.raw)
    ELSE IF HasRaw(r) THEN (IF IsList(r.raw) THEN r.raw ELSE PyList(<<>>))
    ELSE IF IsStr(r.v) THEN LoadsOrEmpty(r.v)
    ELSE IF IsList(r.v) THEN r.v
    ELSE PyList(<<>>)

\* run_research_crew lines 198-232: the value bound to `papers`
SelectPapers(r) ==
    IF IsStr(r.v) THEN LoadsOrEmpty(r.v)
    ELSE IF IsList(r.v) THEN r.v
    ELSE IF HasRaw(r) /\ IsStr(r.raw) THEN LoadsOrEmpty(r.raw)
    ELSE IF HasRaw(r) THEN (IF IsList(r.raw) THEN r.raw ELSE PyList(<<>>))
    ELSE PyList(<<>>)

\* "if papers is None": an empty list does not trigger the fallback
NeedsFallback_OnlyNone(v) == v.t = "none"

\* line 237: "if not papers"
NeedsFallback(v) == ~Truthy(v)

(***************************************************************************)
(* "for p in papers": a list yields its entries, a dict its keys, a str    *)
(* its characters; any other value raises TypeError.                       *)
(***************************************************************************)
StrChars(s) ==
    CASE s = "" -> <<>>
      [] s = "ab" -> <<PyStr("a"), PyStr("b")>>
      [] OTHER -> <<PyStr(s)>>

Iterable(v) == v.t \in {"list", "dict", "str"}

Items(v) ==
    CASE v.t = "list" -> v.l
      [] v.t = "dict" -> [i \in 1..Len(v.d) |-> PyStr(v.d[i][1])]
      [] v.t = "str" -> StrChars(v.s)
      [] OTHER -> <<>>

\* p.get(...) without the "or" defaults
Base_NoDefaults(p) ==
    PyDict(<< <<"title", DictGet(p, "title", PyNone)>>,
              <<"authors", DictGet(p, "authors", PyNone)>>,
              <<"abstract", DictGet(p, "abstract", PyNone)>>,
              <<"link", DictGet(p, "link", PyNone)>>,
              <<"published", DictGet(p, "published", PyNone)>> >>)

\* lines 247-253
Base(p) ==
    PyDict(<< <<"title", PyOr(DictGet(p, "title", PyNone), PyStr(""))>>,
              <<"authors", PyOr(DictGet(p, "authors", PyNone), PyList(<<>>))>>,
              <<"abstract", PyOr(DictGet(p, "abstract", PyNone), PyStr(""))>>,
              <<"link", PyOr(DictGet(p, "link", PyNone), PyStr(""))>>,
              <<"published", DictGet(p, "published", PyNone)>> >>)

\* the summary is regenerated for every record
UsesSummarizer_Always(summary) == TRUE

\* line 255: "not summary or not isinstance(summary, dict)"
UsesSummarizer(summary) == ~Truthy(summary) \/ ~IsDict(summary)

\* lines 257-262: {**base, "summary": {...}}, summary being a dict
Enrich(base, summary) ==
    PyDict(base.d \o
           << <<"summary",
                PyDict([i \in 1..Len(SummaryKeys) |->
                          <<SummaryKeys[i],
                            DictGet(summary, SummaryKeys[i], PyStr(""))>>])>> >>)

(***************************************************************************)
(* Inputs.                                                                 *)
(***************************************************************************)
\* request topics, as character sequences
Topics == {<<>>, <<" ">>, <<" ", " ">>, <<" ", "a", " ", "b", " ">>}

\* request top_n: absent (None) or an integer
TopNs == {PyNone, PyInt(1)}

RECURSIVE LStripChars(_)
LStripChars(cs) ==
    IF cs /= <<>> /\ Head(cs) = " " THEN LStripChars(Tail(cs)) ELSE cs

RECURSIVE RStripChars(_)
RStripChars(cs) ==
    IF cs /= <<>> /\ cs[Len(cs)] = " "
    THEN RStripChars(SubSeq(cs, 1, Len(cs) - 1))
    ELSE cs

\* str.lstrip() in place of str.strip()
Strip_LeftOnly(cs) == LStripChars(cs)

\* str.strip() of a topic
Strip(cs) == RStripChars(LStripChars(cs))

FullSummary ==
    PyDict(<< <<"problem", PyStr("p")>>, <<"methodology", PyStr("m")>>,
              <<"findings", PyStr("f")>>, <<"limitations", PyStr("l")>> >>)

\* entries an orchestration output may hold
ENonRecord == PyInt(7)
PNoSum ==
    PyDict(<< <<"title", PyStr("N")>>, <<"authors", PyList(<<PyStr("A")>>)>>,
              <<"abstract", PyStr("abs")>>, <<"link", PyStr("http://n/")>>,
              <<"published", PyStr("2023-05-01")>> >>)
PSparse ==
    PyDict(<< <<"title", PyNone>>, <<"authors", PyList(<<>>)>>,
              <<"abstract", PyStr("")>>, <<"published", PyStr("")>>,
              <<"summary", PyDict(<<>>)>> >>)
PStrSum == PyDict(<< <<"title", PyStr("S")>>, <<"summary", PyStr("text")>> >>)
PFull == PyDict(<< <<"title", PyStr("F")>>, <<"summary", FullSummary>> >>)
PPartial ==
    PyDict(<< <<"title", PyStr("H")>>, <<"published", PyStr("2020-01-01")>>,
              <<"summary", PyDict(<< <<"findings", PyStr("f")>> >>)>> >>)

Entries == {ENonRecord, PNoSum, PSparse, PStrSum, PFull, PPartial}

\* longest list of an orchestration output
MaxEntries == 2

OrchLists == UNION {[1..n -> Entries] : n \in 0..MaxEntries}

\* texts that are no JSON list: JSON of another type, and text that is no JSON
OtherTexts ==
    {Dumps(PyInt(5)), Dumps(PyInt(0)), Dumps(PyNone), Dumps(PyBool(TRUE)),
     Dumps(PyBool(FALSE)), Dumps(PFull), Dumps(PyStr("ab")),
     <<TWord("Sorry")>>, <<TP("["), TStr("x")>>, <<>>}

OrchResults ==
    {Result(PyText(Dumps(PyList(l))), NoAttr) : l \in OrchLists}
    \cup {Result(PyList(l), NoAttr) : l \in OrchLists}
    \cup {Result(PyObj, PyText(Dumps(PyList(l)))) : l \in OrchLists}
    \cup {Result(PyObj, PyList(l)) : l \in OrchLists}
    \cup {Result(PyText(x), NoAttr) : x \in OtherTexts}
    \cup {Result(PyObj, PyText(x)) : x \in OtherTexts}
    \cup {Result(PyObj, NoAttr), Result(PyNone, NoAttr), Result(PFull, NoAttr),
          Result(PyObj, PyInt(5)), Result(PyObj, PyNone),
          \* a str or a list that also has a raw attribute
          Result(PyText(Dumps(PyList(<<PFull>>))), PyList(<<PPartial>>)),
          Result(PyList(<<PFull>>), PyText(Dumps(PyList(<<PPartial>>))))}

\* what the generation provider does on one call
GenRaise == [raise |-> TRUE, x |-> <<>>]
GenText(x) == [raise |-> FALSE, x |-> x]
NoGen == GenText(<<>>)

GenOutcomes ==
    {GenRaise,
     GenText(Dumps(FullSummary)),
     GenText(<<TFence, TWord("json"), TWs>> \o Dumps(FullSummary)
             \o <<TWs, TFence>>),
     GenText(Dumps(PyDict(<< <<"problem", PyStr("p")>>,
                             <<"extra", PyStr("e")>> >>))),
     GenText(Dumps(PyList(<<>>))),
     GenText(<<TWord("Sorry")>>),
     GenText(<<>>)}

(***************************************************************************)
(* State.                                                                  *)
(***************************************************************************)
VARIABLES
    client,     \* GENAI_CLIENT is not None
    pc,         \* where the request is
    req,        \* the SummarizeRequest: [topic, top_n]
    topic,      \* run_research_crew's topic
    top_n,      \* run_research_crew's top_n
    result,     \* run_research_crew's result
    papers,     \* run_research_crew's papers
    selected,   \* the value of papers at line 234, before the final fallback
    idx,        \* position of the loop of line 244 in papers
    normalized, \* run_research_crew's normalized
    crewRuns,   \* crew.kickoff() calls
    searchLog,  \* _arxiv_search_function calls: [site, query, max_results, found]
    sumLog,     \* _summarize_with_gemini calls: [paper, gen, raised, ret]
    status,     \* HTTP status of the response, 0 while there is none
    error,      \* the exception behind a 500
    response    \* the body of a 200 response

vars == <<client, pc, req, topic, top_n, result, papers, selected, idx, normalized,
          crewRuns, searchLog, sumLog, status, error, response>>

NoReq == [topic |-> <<>>, top_n |-> PyNone]

Init ==
    /\ client \in BOOLEAN
    /\ pc = "idle"
    /\ req = NoReq
    /\ topic = <<>>
    /\ top_n = 0
    /\ result = Result(PyNone, NoAttr)
    /\ papers = PyList(<<>>)
    /\ selected = PyList(<<>>)
    /\ idx = 0
    /\ normalized = <<>>
    /\ crewRuns = 0
    /\ searchLog = <<>>
    /\ sumLog = <<>>
    /\ status = 0
    /\ error = ""
    /\ response = PyNone

SearchCall(site, out) ==
    [site |-> site, query |-> topic, max_results |-> top_n,
     found |-> arxiv_search_function(out)]

\* the handler ends with an HTTPException
Fail(code, why) ==
    /\ pc' = "done"
    /\ status' = code
    /\ error' = why

(***************************************************************************)
(* main.py summarize, lines 60-65: validation.                             *)
(***************************************************************************)
Receive ==
    /\ pc = "idle"
    /\ \E t \in Topics, n \in TopNs :
         /\ req' = [topic |-> t, top_n |-> n]
         /\ IF Strip(t) = <<>>
            THEN /\ Fail(400, "Topic must not be empty")
                 /\ UNCHANGED <<topic, top_n>>
            ELSE /\ topic' = Strip(t)
                 /\ top_n' = IF Truthy(n) THEN n.i ELSE DefaultTopN
                 /\ pc' = "crew"
                 /\ UNCHANGED <<status, error>>
    /\ UNCHANGED <<selected, client, result, papers, idx, normalized, crewRuns,
                   searchLog, sumLog, response>>

(***************************************************************************)
(* run_research_crew lines 167-192: the crew runs.                         *)
(***************************************************************************)
\* the pipeline raises: the except branch searches directly
KickoffRaises ==
    /\ pc = "crew"
    /\ \E out \in SearchOutcomes(top_n) :
         LET call == SearchCall("adapter", out) IN
         /\ searchLog' = Append(searchLog, call)
         /\ result' = Result(PyList(call.found), NoAttr)
    /\ crewRuns' = crewRuns + 1
    /\ pc' = "select"
    /\ UNCHANGED <<selected, client, req, topic, top_n, papers, idx, normalized, sumLog,
                   status, error, response>>

\* the search agent calls arxiv_search_tool and its JSON string is passed
\* through as the raw of the crew's output
KickoffTool ==
    /\ pc = "crew"
    /\ \E out \in SearchOutcomes(top_n) :
         LET call == SearchCall("tool", out) IN
         /\ searchLog' = Append(searchLog, call)
         /\ result' = Result(PyObj, PyText(Dumps(PyList(call.found))))
    /\ crewRuns' = crewRuns + 1
    /\ pc' = "select"
    /\ UNCHANGED <<selected, client, req, topic, top_n, papers, idx, normalized, sumLog,
                   status, error, response>>

\* the crew returns whatever its agents made up
KickoffOther ==
    /\ pc = "crew"
    /\ result' \in OrchResults
    /\ crewRuns' = crewRuns + 1
    /\ pc' = "select"
    /\ UNCHANGED <<selected, client, req, topic, top_n, papers, idx, normalized,
                   searchLog, sumLog, status, error, response>>

(***************************************************************************)
(* lines 198-232: the shape of the result decides papers.                  *)
(***************************************************************************)
Select ==
    /\ pc = "select"
    /\ papers' = SelectPapers(result)
    /\ selected' = papers'
    /\ pc' = "fallback"
    /\ UNCHANGED <<client, req, topic, top_n, result, idx, normalized,
                   crewRuns, searchLog, sumLog, status, error, response>>

(***************************************************************************)
(* lines 237-240: the final fallback.                                      *)
(***************************************************************************)
FallbackSearch ==
    /\ pc = "fallback"
    /\ NeedsFallback(papers)
    /\ \E out \in SearchOutcomes(top_n) :
         LET call == SearchCall("final", out) IN
         /\ searchLog' = Append(searchLog, call)
         /\ papers' = PyList(call.found)
    /\ pc' = "loop"
    /\ idx' = 1
    /\ UNCHANGED <<selected, client, req, topic, top_n, result, normalized, crewRuns,
                   sumLog, status, error, response>>

FallbackSkip ==
    /\ pc = "fallback"
    /\ ~NeedsFallback(papers)
    /\ pc' = "loop"
    /\ idx' = 1
    /\ UNCHANGED <<selected, client, req, topic, top_n, result, papers, normalized,
                   crewRuns, searchLog, sumLog, status, error, response>>

(***************************************************************************)
(* lines 243-262: the loop over papers.                                    *)
(***************************************************************************)
\* "for p in papers" over a value that cannot be iterated
LoopNotIterable ==
    /\ pc = "loop"
    /\ ~Iterable(papers)
    /\ Fail(500, "TypeError: object is not iterable")
    /\ UNCHANGED <<selected, client, req, topic, top_n, result, papers, idx, normalized,
                   crewRuns, searchLog, sumLog, response>>

AtEntry == pc = "loop" /\ Iterable(papers) /\ idx <= Len(Items(papers))
Entry == Items(papers)[idx]

\* lines 245-246
LoopSkip ==
    /\ AtEntry
    /\ ~IsDict(Entry)
    /\ idx' = idx + 1
    /\ UNCHANGED <<selected, client, pc, req, topic, top_n, result, papers, normalized,
                   crewRuns, searchLog, sumLog, status, error, response>>

\* the entry carries a summary dict
LoopEmbedded ==
    /\ AtEntry
    /\ IsDict(Entry)
    /\ ~UsesSummarizer(DictGet(Entry, "summary", PyNone))
    /\ normalized' = Append(normalized,
                            Enrich(Base(Entry), DictGet(Entry, "summary", PyNone)))
    /\ idx' = idx + 1
    /\ UNCHANGED <<selected, client, pc, req, topic, top_n, result, papers, crewRuns,
                   searchLog, sumLog, status, error, response>>

\* the entry carries none: _summarize_with_gemini(base)
LoopSummarize ==
    /\ AtEntry
    /\ IsDict(Entry)
    /\ UsesSummarizer(DictGet(Entry, "summary", PyNone))
    /\ \E gen \in (IF client THEN GenOutcomes ELSE {NoGen}) :
         LET r == summarize_with_gemini(client, gen) IN
         /\ sumLog' = Append(sumLog, [paper |-> Base(Entry), gen |-> gen,
                                      raised |-> r.raised, ret |-> r.v])
         /\ IF r.raised
            THEN /\ Fail(500, "generate_content raised")
                 /\ UNCHANGED <<idx, normalized>>
            ELSE IF ~IsDict(r.v)
            THEN /\ Fail(500, "AttributeError: no attribute get")
                 /\ UNCHANGED <<idx, normalized>>
            ELSE /\ normalized' = Append(normalized, Enrich(Base(Entry), r.v))
                 /\ idx' = idx + 1
                 /\ UNCHANGED <<pc, status, error>>
    /\ UNCHANGED <<selected, client, req, topic, top_n, result, papers, crewRuns,
                   searchLog, response>>

\* lines 264-268 and main.py line 71
Return ==
    /\ pc = "loop"
    /\ Iterable(papers)
    /\ idx > Len(Items(papers))
    /\ pc' = "done"
    /\ status' = 200
    /\ response' = [topic |-> topic, papers |-> normalized]
    /\ UNCHANGED <<selected, client, req, topic, top_n, result, papers, idx, normalized,
                   crewRuns, searchLog, sumLog, error>>

Next ==
    \/ Receive
    \/ KickoffRaises
    \/ KickoffTool
    \/ KickoffOther
    \/ Select
    \/ FallbackSearch
    \/ FallbackSkip
    \/ LoopNotIterable
    \/ LoopSkip
    \/ LoopEmbedded
    \/ LoopSummarize
    \/ Return

Spec == Init /\ [][Next]_vars

(***************************************************************************)
(* Vocabulary of the properties.                                           *)
(***************************************************************************)
PaperKeys == <<"title", "authors", "abstract", "link", "published", "summary">>

\* the keys of a dict, in order, and whether k is one of them
PairsKeys(d) == [i \in DOMAIN d |-> d[i][1]]
PairsHas(d, k) == \E i \in DOMAIN d : d[i][1] = k

KeySet(v) == {v.d[i][1] : i \in DOMAIN v.d}

\* a mapping with exactly the four keys problem, methodology, findings,
\* limitations
IsSummaryRecord(v) ==
    /\ IsDict(v)
    /\ Len(v.d) = 4
    /\ KeySet(v) = {"problem", "methodology", "findings", "limitations"}

\* a paper with every EnrichedPaper field present and a SummaryRecord
WellFormedPaper(p) ==
    /\ IsDict(p)
    /\ PairsKeys(p.d) = PaperKeys
    /\ IsSummaryRecord(DictGet(p, "summary", PyNone))

Field(p, k) == DictGet(p, k, PyNone)

CallsAt(site) == SelectSeq(searchLog, LAMBDA c : c.site = site)

\* the record-shaped entries of a record list, in order
RecordsOf(v) == SelectSeq(Items(v), LAMBDA e : e.t = "dict")

\* a record that carries no summary sub-object
NoEmbeddedSummary(e) ==
    \/ ~PairsHas(e.d, "summary")
    \/ Field(e, "summary").t /= "dict"
    \/ Field(e, "summary").d = <<>>

Responded == pc = "done" /\ status = 200

\* the failure cases of the Summarization Client on one call
UnparsableText(gen) ==
    ~gen.raise /\ gen.x /= <<>> /\ ~Loads(clean_json_text(gen.x)).ok

SummarizerFailureCase(c) == ~client \/ c.gen.raise \/ UnparsableText(c.gen)

\* no call of the Summarization Client threw or returned a non-mapping
SummarizerBehaved == \A i \in DOMAIN sumLog : ~sumLog[i].raised /\ IsDict(sumLog[i].ret)

(***************************************************************************)
(* C1: the Summarization Client never raises and never fails the request:  *)
(* with no client configured, when the generation call throws, or when the *)
(* response text is no JSON, it returns the all-empty SummaryRecord and    *)
(* the request still gets its response.                                    *)
(***************************************************************************)
C1_SummarizeNeverFailsRequest ==
    /\ \A i \in DOMAIN sumLog :
         /\ ~sumLog[i].raised
         /\ SummarizerFailureCase(sumLog[i]) => sumLog[i].ret = EmptySummary
    /\ (pc = "done" /\ sumLog /= <<>> /\ SummarizerFailureCase(sumLog[Len(sumLog)]))
         => status = 200

(***************************************************************************)
(* C2: whatever the shape of the orchestration output, the normalization   *)
(* does not raise and the response's papers are a list of well-formed      *)
(* EnrichedPaper records.  (Requests in which the Summarization Client     *)
(* itself misbehaved are left to C1 and C7.)                               *)
(***************************************************************************)
C2_NormalizeNeverRaises ==
    (pc = "done" /\ crewRuns > 0 /\ SummarizerBehaved)
      => /\ status = 200
         /\ \A j \in DOMAIN response.papers : WellFormedPaper(response.papers[j])

(***************************************************************************)
(* C3: a response with no papers is returned only after the final fallback *)
(* search was made with (topic, top_n) and found nothing.                  *)
(***************************************************************************)
C3_EmptyOnlyAfterFallback ==
    (Responded /\ response.papers = <<>>)
      => \E i \in DOMAIN searchLog :
            /\ searchLog[i].site = "final"
            /\ searchLog[i].query = topic
            /\ searchLog[i].max_results = top_n
            /\ searchLog[i].found = <<>>

(***************************************************************************)
(* C4: the shape is decided in the order string, sequence, wrapper with a  *)
(* textual payload, wrapper with a sequence payload, unrecognized, first   *)
(* match wins; the record list is the list embedded in that shape (parsed  *)
(* from the JSON text, or the list itself, or empty), and the response has *)
(* one paper per record-shaped entry of it, in the input order.            *)
(***************************************************************************)
EmbeddedLists ==
    OrchLists \cup {arxiv_search_function(o) : o \in SearchOutcomes(DefaultTopN)}

IsWrapper(r) == ~IsStr(r.v) /\ ~IsList(r.v) /\ HasRaw(r)

C4_Shapes ==
    /\ \A l \in EmbeddedLists :
         /\ (IsStr(result.v) /\ TextOf(result.v) = Dumps(PyList(l)))
              => selected = PyList(l)
         /\ result.v = PyList(l) => selected = PyList(l)
         /\ (IsWrapper(result) /\ IsStr(result.raw)
               /\ TextOf(result.raw) = Dumps(PyList(l)))
              => selected = PyList(l)
         /\ (IsWrapper(result) /\ result.raw = PyList(l)) => selected = PyList(l)
    /\ (IsStr(result.v) /\ ~Loads(TextOf(result.v)).ok) => selected = PyList(<<>>)
    /\ (IsWrapper(result) /\ IsStr(result.raw) /\ ~Loads(TextOf(result.raw)).ok)
         => selected = PyList(<<>>)
    /\ (IsWrapper(result) /\ ~IsStr(result.raw) /\ ~IsList(result.raw))
         => selected = PyList(<<>>)
    /\ (~IsStr(result.v) /\ ~IsList(result.v) /\ ~HasRaw(result))
         => selected = PyList(<<>>)

TitleOrEmpty(e) ==
    IF Field(e, "title").t = "str" THEN Field(e, "title") ELSE PyStr("")

C4_OnePaperPerRecord ==
    LET recs == RecordsOf(selected) IN
    /\ Len(response.papers) = Len(recs)
    /\ \A j \in DOMAIN recs :
         /\ Field(response.papers[j], "title") = TitleOrEmpty(recs[j])
         /\ Field(response.papers[j], "published") = Field(recs[j], "published")

C5_FallbackExactlyWhenEmpty ==
    (pc \in {"loop", "done"} /\ crewRuns > 0 /\ IsList(selected))
      => LET finals == CallsAt("final") IN
         IF selected.l = <<>>
         THEN /\ Len(finals) = 1
              /\ finals[1].query = topic
              /\ finals[1].max_results = top_n
              /\ papers = PyList(finals[1].found)
              /\ Responded =>
                   /\ Len(response.papers) = Len(finals[1].found)
                   /\ \A j \in DOMAIN response.papers :
                        \A k \in {"title", "authors", "abstract", "link", "published"} :
                          Field(response.papers[j], k) = Field(finals[1].found[j], k)
         ELSE finals = <<>> /\ papers = selected

C5_Witness ==
    /\ Responded
    /\ result = Result(PyText(<<TP("["), TP("]")>>), NoAttr)
    /\ Len(CallsAt("final")) = 1
    /\ Len(response.papers) = 2

(***************************************************************************)
(* C6: the Summarization Client is called once for each record-shaped      *)
(* entry with no embedded summary that the loop has reached, and for no    *)
(* other entry; when the response is returned the number of calls is the   *)
(* number of such entries of the final record list.                        *)
(***************************************************************************)
\* the entries the loop has reached: the one a failing call was made for
\* is reached, the one at idx otherwise is not yet
Reached ==
    LET n == IF pc = "done" /\ status = 500 /\ sumLog /= <<>>
                  /\ (sumLog[Len(sumLog)].raised \/ ~IsDict(sumLog[Len(sumLog)].ret))
             THEN idx ELSE idx - 1
    IN  SubSeq(Items(papers), 1, n)

CountNoSummary(es) ==
    Len(SelectSeq(es, LAMBDA e : e.t = "dict" /\ NoEmbeddedSummary(e)))

C7_SummarizeReturnsSummaryRecord ==
    \A i \in DOMAIN sumLog : ~sumLog[i].raised => IsSummaryRecord(sumLog[i].ret)

(***************************************************************************)
(* C8: every paper of every response has title, authors, abstract, link,   *)
(* published and summary; a field missing, null or empty in the record is  *)
(* emitted as its default; the summary has exactly the four keys, a key    *)
(* missing from an embedded summary being the empty string.                *)
(***************************************************************************)
Missing(e, k) == ~PairsHas(e.d, k) \/ Field(e, k) = PyNone

MissingOrEmpty(e, k) ==
    Missing(e, k) \/ Field(e, k) = PyStr("") \/ Field(e, k) = PyList(<<>>)

EmbeddedKeysKept(e, out) ==
    ~NoEmbeddedSummary(e) =>
       \A i \in DOMAIN SummaryKeys :
          Field(Field(out, "summary"), SummaryKeys[i]) =
             IF PairsHas(Field(e, "summary").d, SummaryKeys[i])
             THEN Field(Field(e, "summary"), SummaryKeys[i])
             ELSE PyStr("")

\* all but the published field
C8_Fields(e, out) ==
    /\ WellFormedPaper(out)
    /\ \A k \in {"title", "abstract", "link"} :
         Field(out, k) = IF MissingOrEmpty(e, k) THEN PyStr("") ELSE Field(e, k)
    /\ Field(out, "authors") =
         IF MissingOrEmpty(e, "authors") THEN PyList(<<>>) ELSE Field(e, "authors")
    /\ EmbeddedKeysKept(e, out)

\* as claimed: an empty published is emitted as null as well
C8_AllFieldsDefaulted ==
    Responded =>
      LET recs == RecordsOf(papers) IN
      /\ Len(response.papers) = Len(recs)
      /\ \A j \in DOMAIN recs :
           /\ C8_Fields(recs[j], response.papers[j])
           /\ Field(response.papers[j], "published") =
                IF MissingOrEmpty(recs[j], "published") THEN PyNone
                ELSE Field(recs[j], "published")

\* amended: published is null when missing or null, and is otherwise the
\* record's own value, the empty string included
C8_FieldsDefaultedPublishedKept ==
    Responded =>
      LET recs == RecordsOf(papers) IN
      /\ Len(response.papers) = Len(recs)
      /\ \A j \in DOMAIN recs :
           /\ C8_Fields(recs[j], response.papers[j])
           /\ Field(response.papers[j], "published") =
                IF Missing(recs[j], "published") THEN PyNone
                ELSE Field(recs[j], "published")

C8_Witness ==
    /\ Responded
    /\ papers = PyList(<<PSparse, PPartial>>)
    /\ Len(response.papers) = 2
    /\ Field(response.papers[1], "title") = PyStr("")
    /\ Field(response.papers[1], "published") = PyStr("")
    /\ Field(Field(response.papers[2], "summary"), "problem") = PyStr("")

(***************************************************************************)
(* C9: when the pipeline raises, the failure is not surfaced: the search   *)
(* is called with (topic, top_n), its list is the orchestration result,    *)
(* and when it found k records the Summarization Client is called k times  *)
(* and the response has k papers, each with a four-key summary.  Stated    *)
(* for k >= 1, the scenario of the specification (k = 2): with k = 0 the   *)
(* final fallback of C5 searches once more.                                *)
(***************************************************************************)
C9_CrewFailureRecovered ==
    (pc = "done" /\ CallsAt("adapter") /= <<>>
       /\ CallsAt("adapter")[1].found /= <<>>)
      => LET call == CallsAt("adapter")[1]
             k == Len(call.found)
         IN  /\ call.query = topic
             /\ call.max_results = top_n
             /\ result = Result(PyList(call.found), NoAttr)
             /\ status = 200
             /\ Len(sumLog) = k
             /\ Len(response.papers) = k
             /\ \A j \in DOMAIN response.papers :
                  IsSummaryRecord(Field(response.papers[j], "summary"))

(***************************************************************************)
(* C10: a request whose topic is empty or only whitespace is rejected with *)
(* status 400 and no crew run, search or summarization is made for it; a   *)
(* request with any other topic reaches the pipeline with the topic        *)
(* stripped and with top_n 5 when the request has none.                    *)
(***************************************************************************)
IsBlank(cs) == \A i \in DOMAIN cs : cs[i] = " "

Spaces(n) == [i \in 1..n |-> " "]

\* t is cs without its leading and trailing whitespace
IsStripped(t, cs) ==
    /\ t /= <<>>
    /\ Head(t) /= " "
    /\ t[Len(t)] /= " "
    /\ \E a, b \in 0..Len(cs) : cs = Spaces(a) \o t \o Spaces(b)

C10_BlankTopicRejected ==
    pc /= "idle" =>
      IF IsBlank(req.topic)
      THEN /\ pc = "done"
           /\ status = 400
           /\ crewRuns = 0
           /\ searchLog = <<>>
           /\ sumLog = <<>>
      ELSE /\ status /= 400
           /\ IsStripped(topic, req.topic)
           /\ top_n = IF req.top_n = PyNone THEN DefaultTopN ELSE req.top_n.i
           /\ pc /= "crew" => crewRuns = 1

C10_Witness ==
    /\ pc = "done"
    /\ status = 400
    /\ req.topic = <<" ", " ">>
    /\ crewRuns = 0

====
